---- MODULE Spec2Model ----
(***************************************************************************)
(* Model of the raw Yjs WebSocket relay (apps/backend/dist/raw-server.js). *)
(*                                                                         *)
(* One action per event the Node.js event loop can deliver to the relay:   *)
(* a 'connection' event, a 'message' event (one action per frame type),    *)
(* a 'close' event, the error callback of an earlier conn.send, the        *)
(* transport going down, and the Awareness instance's expiry timer.  Each  *)
(* action runs the whole handler, with every re-entrant call it makes      *)
(* (send -> closeConn -> removeAwarenessStates -> awarenessChangeHandler   *)
(* -> send ...).  The handlers are operators over a record S holding the   *)
(* program state, so that the re-entrancy is the code's.                   *)
(*                                                                         *)
(* The replicated document is the opaque CRDT of the specification: a      *)
(* grow-only set of update ids; a state vector is the set of ids a peer    *)
(* has.  The awareness (presence) protocol of y-protocols is modelled      *)
(* entry by entry (clock comparison, added / updated / removed).           *)
(***************************************************************************)
EXTENDS Integers, Sequences, FiniteSets, TLC

\* ------------------------------------------------------------------ bounds
NConn == 3          \* WebSocket connections accepted in one run
MaxUpd == 2         \* distinct document updates clients can produce
MaxPid == 2         \* distinct presence participant ids
MaxClock == 2       \* largest awareness clock a client sends

\* -------------------------------------------------------- program constants
messageSync == 0
messageAwareness == 1
messageStats == 10

Conns == 1..NConn
Docs == 1..NConn         \* WSSharedDoc objects alive at once: one per socket at most
Updates == 1..MaxUpd
Pids == 1..MaxPid
NoDoc == 0
NoConn == 0              \* origin null (removeAwarenessStates(..., null))
TimeoutOrigin == -1      \* origin 'timeout' of the Awareness expiry timer
NoClock == -2            \* awareness.meta.get(id) === undefined
Null == "null"           \* JSON null: the participant left
Vals == {"x"}            \* opaque presence state blobs

\* Request paths, as character sequences (req.url).
Urls == { <<"/">>, <<"/", "a">>, <<"/", "a", "/", "b">> }
Lobby == <<"l", "o", "b", "b", "y">>

\* the first segment of a path: what follows the leading slash, up to the
\* next slash
FirstSegment(url) ==
    LET rest == SubSeq(url, 2, Len(url))
        stops == { i \in 1..Len(rest) : rest[i] = "/" }
    IN IF stops = {} THEN rest
       ELSE SubSeq(rest, 1, (CHOOSE i \in stops : \A j \in stops : i <= j) - 1)

\* a room name that is the first path segment
DocNameFirstSegment(url) ==
    IF FirstSegment(url) = <<>> THEN Lobby ELSE FirstSegment(url)

\* req.url?.slice(1) || 'lobby'
DocNameOf(url) ==
    LET sliced == SubSeq(url, 2, Len(url))
    IN IF sliced = <<>> THEN Lobby ELSE sliced

Names == { DocNameOf(u) : u \in Urls }
NoName == <<>>

VARIABLES
    docs,        \* the global Map docs: name -> WSSharedDoc (NoDoc: no entry)
    docName,     \* WSSharedDoc.name of each doc object (NoName: object not allocated)
    conns,       \* WSSharedDoc.conns: insertion-ordered Map ws -> controlled ids
    ydoc,        \* the Y.Doc content of each doc: the set of updates it holds
    awStates,    \* doc.awareness.states: insertion-ordered Map id -> state
    awMeta,      \* doc.awareness.meta: id -> clock (NoClock: no meta entry)
    destroyed,   \* doc.destroy() has run: its observers are gone
    readyState,  \* ws.readyState
    wsDoc,       \* the doc the handlers of ws close over (NoDoc: ws does not exist)
    out,         \* the frames handed to conn.send while handling the last event
    ev           \* the last event handled

vars == <<docs, docName, conns, ydoc, awStates, awMeta, destroyed,
          readyState, wsDoc, out, ev>>

\* ------------------------------------------------------------ Map helpers
\* doc.conns is a sequence of entries [ws, ids]; ids is a JS Set in insertion order.
ConnKeys(m) == [i \in 1..Len(m) |-> m[i].ws]
HasConn(m, c) == \E i \in 1..Len(m) : m[i].ws = c
ConnIds(m, c) == (CHOOSE i \in 1..Len(m) : m[i].ws = c)
ControlledIds(m, c) == m[ConnIds(m, c)].ids
ConnSet(m) == { m[i].ws : i \in 1..Len(m) }

SeqToSet(s) == { s[i] : i \in 1..Len(s) }
SeqHas(s, x) == \E i \in 1..Len(s) : s[i] = x

\* Set.prototype.add / delete on an insertion-ordered set
SetAdd(s, x) == IF SeqHas(s, x) THEN s ELSE Append(s, x)
SetDelete(s, x) ==
    LET Keep(y) == y # x
    IN SelectSeq(s, Keep)

RECURSIVE SetAddAll(_, _)
SetAddAll(s, xs) ==
    IF xs = <<>> THEN s ELSE SetAddAll(SetAdd(s, Head(xs)), Tail(xs))

RECURSIVE SetDeleteAll(_, _)
SetDeleteAll(s, xs) ==
    IF xs = <<>> THEN s ELSE SetDeleteAll(SetDelete(s, Head(xs)), Tail(xs))

\* doc.conns.set(ws, new Set()) / doc.conns.delete(ws)
ConnsSet(m, c) ==
    IF HasConn(m, c)
    THEN [i \in 1..Len(m) |-> IF m[i].ws = c THEN [ws |-> c, ids |-> <<>>] ELSE m[i]]
    ELSE Append(m, [ws |-> c, ids |-> <<>>])
ConnsDelete(m, c) ==
    LET Keep(e) == e.ws # c
    IN SelectSeq(m, Keep)

\* awareness.states: a sequence of entries [id, state]
StateKeys(m) == [i \in 1..Len(m) |-> m[i].id]
HasState(m, id) == \E i \in 1..Len(m) : m[i].id = id
StateOf(m, id) ==
    IF HasState(m, id) THEN m[CHOOSE i \in 1..Len(m) : m[i].id = id].state ELSE Null
StatesSet(m, id, st) ==
    IF HasState(m, id)
    THEN [i \in 1..Len(m) |-> IF m[i].id = id THEN [id |-> id, state |-> st] ELSE m[i]]
    ELSE Append(m, [id |-> id, state |-> st])
StatesDelete(m, id) ==
    LET Keep(e) == e.id # id
    IN SelectSeq(m, Keep)

\* ------------------------------------------------------------------ frames
\* A frame is [type, sub, body]: the varint type tag, the sub-protocol step (for
\* PRESENCE frames: the place of the relay that encoded it) and the payload.
SyncStep1Frame(sv) == [type |-> messageSync, sub |-> "step1", body |-> sv]
SyncStep2Frame(us) == [type |-> messageSync, sub |-> "step2", body |-> us]
SyncUpdateFrame(us) == [type |-> messageSync, sub |-> "update", body |-> us]
AwarenessFrame(site, entries) == [type |-> messageAwareness, sub |-> site, body |-> entries]
StatsFrame(n) == [type |-> messageStats, sub |-> "stats", body |-> n]

\* awarenessProtocol.encodeAwarenessUpdate(awareness, clients):
\* for each client its id, its clock in meta and its state (or null)
EncodeAwarenessUpdate(S, d, clients) ==
    [i \in 1..Len(clients) |->
        [id |-> clients[i],
         clock |-> S.awMeta[d][clients[i]],
         state |-> StateOf(S.awStates[d], clients[i])]]

\* ------------------------------------------------- the program state record
StateRec ==
    [docs |-> docs, docName |-> docName, conns |-> conns, ydoc |-> ydoc,
     awStates |-> awStates, awMeta |-> awMeta, destroyed |-> destroyed,
     readyState |-> readyState, out |-> <<>>]

\* ws.close(): an open socket starts its closing handshake
ConnClose(S, c) ==
    IF S.readyState[c] = "OPEN" THEN [S EXCEPT !.readyState[c] = "CLOSING"] ELSE S

\* doc.destroy(): the Awareness instance is destroyed with it and the observers
\* of both are dropped
Destroy(S, d) == [S EXCEPT !.destroyed[d] = TRUE]

\* a docs.delete that leaves the registry as it is
DocsDeleteNothing(S, name) == S

\* a docs.delete that empties the registry
DocsClear(S, name) == [S EXCEPT !.docs = [n \in Names |-> NoDoc]]

\* docs.delete(doc.name)
DocsDelete(S, name) == [S EXCEPT !.docs[name] = NoDoc]

RECURSIVE Send(_, _, _, _)
RECURSIVE CloseConn(_, _, _)
RECURSIVE RemoveAwarenessStates(_, _, _, _)
RECURSIVE AwarenessChangeHandler(_, _, _, _, _, _)
RECURSIVE ForEachSend(_, _, _, _, _)

\* a send that gives up on a socket that is not open and leaves it registered
SendIgnoresDead(S, d, c, m) ==
    IF S.readyState[c] # "OPEN" THEN S
    ELSE [S EXCEPT !.out = Append(@, [to |-> c, frame |-> m])]

\* send(doc, conn, m).  conn.send of an open ws socket does not throw; its
\* callback may report an error later (action SendFail).
Send(S, d, c, m) ==
    IF S.readyState[c] # "OPEN"
    THEN CloseConn(S, d, c)
    ELSE [S EXCEPT !.out = Append(@, [to |-> c, frame |-> m])]

\* a broadcast loop that ends at the first socket it finds not open
ForEachSendStopsAtDead(S, d, keys, excl, m) ==
    IF keys = <<>> THEN S
    ELSE LET c == Head(keys)
         IN IF HasConn(S.conns[d], c) /\ c # excl
            THEN IF S.readyState[c] # "OPEN"
                 THEN CloseConn(S, d, c)
                 ELSE ForEachSend(Send(S, d, c, m), d, Tail(keys), excl, m)
            ELSE ForEachSend(S, d, Tail(keys), excl, m)

\* this.conns.forEach((_, c) => { if (excl !== c) send(this, c, m) }):
\* Map.prototype.forEach visits the entries in insertion order and skips an
\* entry deleted before its turn.
ForEachSend(S, d, keys, excl, m) ==
    IF keys = <<>> THEN S
    ELSE LET c == Head(keys)
         IN IF HasConn(S.conns[d], c) /\ c # excl
            THEN ForEachSend(Send(S, d, c, m), d, Tail(keys), excl, m)
            ELSE ForEachSend(S, d, Tail(keys), excl, m)

\* an awarenessChangeHandler that also records the updated ids for origin
AwarenessChangeHandlerTracksUpdated(S, d, added, updated, removed, origin) ==
    LET changedClients == added \o updated \o removed
        S1 == IF HasConn(S.conns[d], origin)
              THEN [S EXCEPT !.conns[d][ConnIds(S.conns[d], origin)].ids =
                        SetDeleteAll(SetAddAll(SetAddAll(@, added), updated), removed)]
              ELSE S
        buff == AwarenessFrame("change", EncodeAwarenessUpdate(S1, d, changedClients))
    IN ForEachSend(S1, d, ConnKeys(S1.conns[d]), NoConn, buff)

\* an awarenessChangeHandler that leaves the controlled ids of origin alone
AwarenessChangeHandlerUntracked(S, d, added, updated, removed, origin) ==
    LET changedClients == added \o updated \o removed
        buff == AwarenessFrame("change", EncodeAwarenessUpdate(S, d, changedClients))
    IN ForEachSend(S, d, ConnKeys(S.conns[d]), NoConn, buff)

\* awarenessChangeHandler({added, updated, removed}, origin)
AwarenessChangeHandler(S, d, added, updated, removed, origin) ==
    LET changedClients == added \o updated \o removed
        S1 == IF HasConn(S.conns[d], origin)
              THEN [S EXCEPT !.conns[d][ConnIds(S.conns[d], origin)].ids =
                        SetDeleteAll(SetAddAll(@, added), removed)]
              ELSE S
        buff == AwarenessFrame("change", EncodeAwarenessUpdate(S1, d, changedClients))
    IN ForEachSend(S1, d, ConnKeys(S1.conns[d]), NoConn, buff)

\* awareness.emit('update', ...): nobody listens once the doc is destroyed
EmitAwarenessUpdate(S, d, added, updated, removed, origin) ==
    IF S.destroyed[d] THEN S
    ELSE AwarenessChangeHandler(S, d, added, updated, removed, origin)

\* the loop of removeAwarenessStates: a client that has a state loses it and
\* is pushed to removed
RECURSIVE RemoveStates(_, _)
RemoveStates(acc, clients) ==
    IF clients = <<>> THEN acc
    ELSE LET id == Head(clients)
         IN IF HasState(acc.states, id)
            THEN RemoveStates([states |-> StatesDelete(acc.states, id),
                               removed |-> Append(acc.removed, id)], Tail(clients))
            ELSE RemoveStates(acc, Tail(clients))

\* a removeAwarenessStates that deletes the states and emits nothing
RemoveAwarenessStatesSilent(S, d, clients, origin) ==
    [S EXCEPT !.awStates[d] =
        RemoveStates([states |-> S.awStates[d], removed |-> <<>>], clients).states]

\* awarenessProtocol.removeAwarenessStates(awareness, clients, origin)
RemoveAwarenessStates(S, d, clients, origin) ==
    LET acc == RemoveStates([states |-> S.awStates[d], removed |-> <<>>], clients)
        S1 == [S EXCEPT !.awStates[d] = acc.states]
    IN IF Len(acc.removed) > 0
       THEN EmitAwarenessUpdate(S1, d, <<>>, <<>>, acc.removed, origin)
       ELSE S1

\* a closeConn without the teardown of the room that has become empty
CloseConnKeepsRoom(S, d, c) ==
    IF HasConn(S.conns[d], c)
    THEN LET controlledIds == ControlledIds(S.conns[d], c)
             S1 == [S EXCEPT !.conns[d] = ConnsDelete(@, c)]
         IN ConnClose(RemoveAwarenessStates(S1, d, controlledIds, NoConn), c)
    ELSE ConnClose(S, c)

\* a closeConn without the test doc.conns.has(conn)
CloseConnUnguarded(S, d, c) ==
    LET controlledIds == IF HasConn(S.conns[d], c)
                         THEN ControlledIds(S.conns[d], c) ELSE <<>>
        S1 == [S EXCEPT !.conns[d] = ConnsDelete(@, c)]
        S2 == RemoveAwarenessStates(S1, d, controlledIds, NoConn)
        S3 == IF Len(S2.conns[d]) = 0
              THEN DocsDelete(Destroy(S2, d), S2.docName[d])
              ELSE S2
    IN ConnClose(S3, c)

\* closeConn(doc, conn)
CloseConn(S, d, c) ==
    IF HasConn(S.conns[d], c)
    THEN LET controlledIds == ControlledIds(S.conns[d], c)
             S1 == [S EXCEPT !.conns[d] = ConnsDelete(@, c)]
             S2 == RemoveAwarenessStates(S1, d, controlledIds, NoConn)
             S3 == IF Len(S2.conns[d]) = 0
                   THEN DocsDelete(Destroy(S2, d), S2.docName[d])
                   ELSE S2
         IN ConnClose(S3, c)
    ELSE ConnClose(S, c)


\* ------------------------------------------------------------ document sync
\* a doc 'update' handler that leaves out the test `c !== origin`
DocUpdateHandlerEcho(S, d, update, origin) ==
    ForEachSend(S, d, ConnKeys(S.conns[d]), NoConn, SyncUpdateFrame(update))

\* this.on('update', (update, origin) => ...): broadcast to all but the origin
DocUpdateHandler(S, d, update, origin) ==
    ForEachSend(S, d, ConnKeys(S.conns[d]), origin, SyncUpdateFrame(update))

\* an applyUpdate on the doc the registry holds under the name of the
\* handler's doc, when there is one
ApplyUpdateByName(S, d, update, origin) ==
    LET e == IF S.docs[S.docName[d]] # NoDoc THEN S.docs[S.docName[d]] ELSE d
        new == update \ S.ydoc[e]
        S1 == [S EXCEPT !.ydoc[e] = @ \cup new]
    IN IF new = {} \/ S.destroyed[e] THEN S1
       ELSE DocUpdateHandler(S1, e, new, origin)

\* Y.applyUpdate(doc, update, origin) as readSyncStep2 / readUpdate call it:
\* what the doc already holds is a no-op; the rest is integrated and the doc
\* emits 'update' with exactly the new part (not once destroyed: no observer).
ApplyUpdate(S, d, update, origin) ==
    LET new == update \ S.ydoc[d]
        S1 == [S EXCEPT !.ydoc[d] = @ \cup new]
    IN IF new = {} \/ S.destroyed[d] THEN S1
       ELSE DocUpdateHandler(S1, d, new, origin)

\* an encodeStateAsUpdate that ignores the state vector
EncodeWholeState(S, d, sv) == S.ydoc[d]

\* Y.encodeStateAsUpdate(doc, sv) as readSyncStep1 calls it
EncodeStateAsUpdate(S, d, sv) == S.ydoc[d] \ sv

\* Y.encodeStateVector(doc) as writeSyncStep1 calls it
EncodeStateVector(S, d) == S.ydoc[d]

\* a Step 1 case that also sends the whole doc again, as an update, to the others
HandleSyncStep1Rebroadcast(S, d, ws, sv) ==
    DocUpdateHandler(Send(S, d, ws, SyncStep2Frame(EncodeStateAsUpdate(S, d, sv))),
                     d, S.ydoc[d], ws)

\* case messageSync, sub-message Step 1: the reply is never empty, so it is sent
HandleSyncStep1(S, d, ws, sv) ==
    Send(S, d, ws, SyncStep2Frame(EncodeStateAsUpdate(S, d, sv)))

\* a Step 2 / Update case that answers the sender with an empty Step 2
HandleSyncUpdateReplies(S, d, ws, update) ==
    Send(ApplyUpdate(S, d, update, ws), d, ws, SyncStep2Frame({}))

\* case messageSync, sub-message Step 2 or Update: nothing is written to the
\* reply encoder (its length stays 1), so nothing is sent back
HandleSyncUpdate(S, d, ws, update) == ApplyUpdate(S, d, update, ws)

\* ---------------------------------------------------------------- presence
\* one entry of awarenessProtocol.applyAwarenessUpdate
ApplyAwarenessEntry(acc, e) ==
    LET clientMeta == acc.meta[e.id]
        currClock == IF clientMeta = NoClock THEN 0 ELSE clientMeta
    IN IF currClock < e.clock
          \/ (currClock = e.clock /\ e.state = Null /\ HasState(acc.states, e.id))
       THEN [states |-> IF e.state = Null
                        THEN StatesDelete(acc.states, e.id)
                        ELSE StatesSet(acc.states, e.id, e.state),
             meta |-> [acc.meta EXCEPT ![e.id] = e.clock],
             added |-> IF clientMeta = NoClock /\ e.state # Null
                       THEN Append(acc.added, e.id) ELSE acc.added,
             removed |-> IF clientMeta # NoClock /\ e.state = Null
                         THEN Append(acc.removed, e.id) ELSE acc.removed,
             updated |-> IF clientMeta # NoClock /\ e.state # Null
                         THEN Append(acc.updated, e.id) ELSE acc.updated]
       ELSE acc

RECURSIVE ApplyAwarenessEntries(_, _)
ApplyAwarenessEntries(acc, entries) ==
    IF entries = <<>> THEN acc
    ELSE ApplyAwarenessEntries(ApplyAwarenessEntry(acc, Head(entries)), Tail(entries))

\* awarenessProtocol.applyAwarenessUpdate(doc.awareness, update, origin).
\* update = [entries, bad]: bad says the bytes after the entries do not decode,
\* so the call throws after it has merged the entries and before it emits.
ApplyAwarenessUpdate(S, d, update, origin) ==
    LET acc == ApplyAwarenessEntries(
                   [states |-> S.awStates[d], meta |-> S.awMeta[d],
                    added |-> <<>>, updated |-> <<>>, removed |-> <<>>],
                   update.entries)
        S1 == [S EXCEPT !.awStates[d] = acc.states, !.awMeta[d] = acc.meta]
    IN IF update.bad THEN S1
       ELSE IF Len(acc.added) > 0 \/ Len(acc.updated) > 0 \/ Len(acc.removed) > 0
       THEN EmitAwarenessUpdate(S1, d, acc.added, acc.updated, acc.removed, origin)
       ELSE S1

\* a messageAwareness case that merges the payload and forwards nothing
HandleAwarenessMergeOnly(S, d, ws, update) == ApplyAwarenessUpdate(S, d, update, ws)

\* a messageAwareness case that closes the connection when the merge throws
HandleAwarenessCloseOnThrow(S, d, ws, update) ==
    LET S1 == ApplyAwarenessUpdate(S, d, update, ws)
    IN IF update.bad THEN CloseConn(S1, d, ws)
       ELSE ForEachSend(S1, d, ConnKeys(S1.conns[d]), ws,
                        AwarenessFrame("raw", update.entries))

\* case messageAwareness: merge, then forward the received bytes to the others;
\* a throw of the merge is caught by the handler's try/catch and ends it
HandleAwareness(S, d, ws, update) ==
    LET S1 == ApplyAwarenessUpdate(S, d, update, ws)
        awarenessMsg == AwarenessFrame("raw", update.entries)
    IN IF update.bad THEN S1
       ELSE ForEachSend(S1, d, ConnKeys(S1.conns[d]), ws, awarenessMsg)

\* a messageStats case that counts the connections of every room
HandleStatsGlobal(S, d, ws) ==
    Send(S, d, ws, StatsFrame(Cardinality(UNION { ConnSet(S.conns[e]) : e \in Docs })))

\* a messageStats case that sends the count to every connection of the room
HandleStatsBroadcast(S, d, ws) ==
    ForEachSend(S, d, ConnKeys(S.conns[d]), NoConn, StatsFrame(Len(S.conns[d])))

\* case messageStats
HandleStats(S, d, ws) == Send(S, d, ws, StatsFrame(Len(S.conns[d])))

\* --------------------------------------------------------------- connecting
\* new WSSharedDoc(name): an empty Y.Doc, no connection, an Awareness without
\* any state (setLocalState(null))
NewDoc(S, d, name) ==
    [S EXCEPT !.docName[d] = name, !.conns[d] = <<>>, !.ydoc[d] = {},
              !.awStates[d] = <<>>, !.awMeta[d] = [p \in Pids |-> NoClock],
              !.destroyed[d] = FALSE]

\* the object a `new` returns is one nothing refers to yet
FreshDoc(S) == CHOOSE d \in Docs : S.docName[d] = NoName /\
                   \A e \in Docs : S.docName[e] = NoName => d <= e

\* a getYDoc that constructs a doc whether or not the name has one
GetYDocAlwaysNew(S, name) ==
    LET d == FreshDoc(S)
    IN [NewDoc(S, d, name) EXCEPT !.docs[name] = d]

\* getYDoc(docname): map.setIfUndefined(docs, docname, () => new WSSharedDoc(docname))
GetYDoc(S, name) ==
    IF S.docs[name] # NoDoc THEN S
    ELSE LET d == FreshDoc(S)
         IN [NewDoc(S, d, name) EXCEPT !.docs[name] = d]

\* a setupConnection whose handshake ends after the Sync Step 1
SetupConnectionNoSnapshot(S, ws, name) ==
    LET S0 == GetYDoc(S, name)
        d == S0.docs[name]
        S1 == [S0 EXCEPT !.conns[d] = ConnsSet(@, ws)]
    IN Send(S1, d, ws, SyncStep1Frame(EncodeStateVector(S1, d)))

\* a setupConnection that sends the awareness snapshot whatever its size
SetupConnectionAlwaysSnapshot(S, ws, name) ==
    LET S0 == GetYDoc(S, name)
        d == S0.docs[name]
        S1 == [S0 EXCEPT !.conns[d] = ConnsSet(@, ws)]
        S2 == Send(S1, d, ws, SyncStep1Frame(EncodeStateVector(S1, d)))
    IN Send(S2, d, ws,
            AwarenessFrame("snapshot",
                EncodeAwarenessUpdate(S2, d, StateKeys(S2.awStates[d]))))

\* a setupConnection whose Sync Step 1 always carries an empty state vector
SetupConnectionEmptyVector(S, ws, name) ==
    LET S0 == GetYDoc(S, name)
        d == S0.docs[name]
        S1 == [S0 EXCEPT !.conns[d] = ConnsSet(@, ws)]
        S2 == Send(S1, d, ws, SyncStep1Frame({}))
    IN IF Len(S2.awStates[d]) > 0
       THEN Send(S2, d, ws,
                 AwarenessFrame("snapshot",
                     EncodeAwarenessUpdate(S2, d, StateKeys(S2.awStates[d]))))
       ELSE S2

\* setupConnection(ws, req, docName): register, then the initial handshake
SetupConnection(S, ws, name) ==
    LET S0 == GetYDoc(S, name)
        d == S0.docs[name]
        S1 == [S0 EXCEPT !.conns[d] = ConnsSet(@, ws)]
        S2 == Send(S1, d, ws, SyncStep1Frame(EncodeStateVector(S1, d)))
        awarenessStates == S2.awStates[d]
    IN IF Len(awarenessStates) > 0
       THEN Send(S2, d, ws,
                 AwarenessFrame("snapshot",
                     EncodeAwarenessUpdate(S2, d, StateKeys(awarenessStates))))
       ELSE S2

\* A doc object that neither the registry nor the handlers of a live socket
\* refer to is unreachable: its slot is given back.
Collect(S, refs) ==
    LET Dead(d) == S.docName[d] # NoName /\ d \notin refs /\ S.docs[S.docName[d]] # d
    IN [S EXCEPT
          !.docName = [d \in Docs |-> IF Dead(d) THEN NoName ELSE @[d]],
          !.conns = [d \in Docs |-> IF Dead(d) THEN <<>> ELSE @[d]],
          !.ydoc = [d \in Docs |-> IF Dead(d) THEN {} ELSE @[d]],
          !.awStates = [d \in Docs |-> IF Dead(d) THEN <<>> ELSE @[d]],
          !.awMeta = [d \in Docs |-> IF Dead(d) THEN [p \in Pids |-> NoClock] ELSE @[d]],
          !.destroyed = [d \in Docs |-> IF Dead(d) THEN FALSE ELSE @[d]]]

\* the state after an event: T is what the handler left, w the sockets' docs
Commit(T, w, e) ==
    \E U \in { Collect(T, { w[c] : c \in Conns }) } :
       /\ docs' = U.docs
       /\ docName' = U.docName
       /\ conns' = U.conns
       /\ ydoc' = U.ydoc
       /\ awStates' = U.awStates
       /\ awMeta' = U.awMeta
       /\ destroyed' = U.destroyed
       /\ readyState' = U.readyState
       /\ out' = U.out
       /\ wsDoc' = w
       /\ ev' = e

\* the last event: its kind and the socket it came from
Event(type, ws) == [type |-> type, ws |-> ws]

\* ------------------------------------------------------------------ inputs
AwarenessEntries == [id : Pids, clock : 1..MaxClock, state : Vals \cup {Null}]
\* the awareness payloads clients send: one entry, or bytes that stop decoding
\* at once or after one entry
AwarenessUpdates ==
    { [entries |-> <<e>>, bad |-> b] : e \in AwarenessEntries, b \in BOOLEAN }
    \cup { [entries |-> <<>>, bad |-> TRUE] }
UpdateBlobs == (SUBSET Updates) \ {{}}
StateVectors == SUBSET Updates

\* ------------------------------------------------------------------ actions
Init ==
    /\ docs = [n \in Names |-> NoDoc]
    /\ docName = [d \in Docs |-> NoName]
    /\ conns = [d \in Docs |-> <<>>]
    /\ ydoc = [d \in Docs |-> {}]
    /\ awStates = [d \in Docs |-> <<>>]
    /\ awMeta = [d \in Docs |-> [p \in Pids |-> NoClock]]
    /\ destroyed = [d \in Docs |-> FALSE]
    /\ readyState = [c \in Conns |-> "NONE"]
    /\ wsDoc = [c \in Conns |-> NoDoc]
    /\ out = <<>>
    /\ ev = Event("init", NoConn)

\* wss.on('connection'): the upgrade has completed, the socket is open.
\* The sockets are numbered in the order they are accepted.
Connect(c, url) ==
    /\ readyState[c] = "NONE"
    /\ \A b \in Conns : b < c => readyState[b] # "NONE"
    /\ LET name == DocNameOf(url)
           S == [StateRec EXCEPT !.readyState[c] = "OPEN"]
           T == SetupConnection(S, c, name)
           d == GetYDoc(S, name).docs[name]
       IN Commit(T, [wsDoc EXCEPT ![c] = d], Event("connect", c))

\* a 'message' event reaches the handler of a socket until its 'close' event
CanReceive(c) == wsDoc[c] # NoDoc /\ readyState[c] # "CLOSED"

MessageSyncStep1(c, sv) ==
    /\ CanReceive(c)
    /\ Commit(HandleSyncStep1(StateRec, wsDoc[c], c, sv), wsDoc,
              Event("syncStep1", c))

MessageSyncUpdate(c, sub, update) ==
    /\ CanReceive(c)
    /\ Commit(HandleSyncUpdate(StateRec, wsDoc[c], c, update), wsDoc,
              Event("syncUpdate", c))

MessageAwareness(c, update) ==
    /\ CanReceive(c)
    /\ Commit(HandleAwareness(StateRec, wsDoc[c], c, update), wsDoc,
              Event("awareness", c))

MessageStats(c) ==
    /\ CanReceive(c)
    /\ Commit(HandleStats(StateRec, wsDoc[c], c), wsDoc,
              Event("stats", c))

\* a frame the handler drops: its type tag does not decode or its SYNC payload
\* does not (both throw into the catch), or its type is none of the three
MessageDropped(c, why) ==
    /\ CanReceive(c)
    /\ Commit(StateRec, wsDoc, Event("dropped", c))

\* the peer closes or the transport fails: readyState leaves OPEN, the
\* 'close' event comes later
TransportDown(c) ==
    /\ wsDoc[c] # NoDoc
    /\ readyState[c] = "OPEN"
    /\ Commit([StateRec EXCEPT !.readyState[c] = "CLOSING"], wsDoc,
              Event("down", c))

\* ws.on('close', () => closeConn(doc, ws)); no event of ws follows it
Close(c) ==
    /\ wsDoc[c] # NoDoc
    /\ readyState[c] = "CLOSING"
    /\ LET S == [StateRec EXCEPT !.readyState[c] = "CLOSED"]
       IN Commit(CloseConn(S, wsDoc[c], c), [wsDoc EXCEPT ![c] = NoDoc],
                 Event("close", c))

\* conn.send(m, (err) => { if (err != null) closeConn(doc, conn) }): the
\* callback of a write to ws reports an error.  Every socket has been written
\* to (the handshake of its 'connection' event); a callback that comes after
\* the 'close' event finds ws deregistered and closed, and changes nothing.
SendFail(c) ==
    /\ wsDoc[c] # NoDoc
    /\ Commit(CloseConn(StateRec, wsDoc[c], c), wsDoc, Event("sendFail", c))

\* the expiry timer of the Awareness instance: states not renewed for
\* outdatedTimeout are removed with origin 'timeout'
AwarenessTimeout(d, ids) ==
    /\ docName[d] # NoName
    /\ ~destroyed[d]
    /\ ids # <<>>
    /\ \A i \in 1..Len(ids) : HasState(awStates[d], ids[i])
    /\ Commit(RemoveAwarenessStates(StateRec, d, ids, TimeoutOrigin), wsDoc,
              Event("timeout", NoConn))

\* the lists of expired ids the timer can find: distinct ids, in any order
TimeoutLists ==
    { <<p>> : p \in Pids } \cup { pq \in { <<p, q>> : p \in Pids, q \in Pids } : pq[1] # pq[2] }

\* the sub-messages of a SYNC frame that carry an update, and the frames the
\* handler drops
SyncUpdateSubs == {"syncStep2", "syncUpdate"}
DropReasons == {"badTag", "badSync", "unknownType"}

\* a presence payload with one entry, and a payload that is cut short
\* after its entries
OneEntry(id, clock, state) ==
    [entries |-> << [id |-> id, clock |-> clock, state |-> state] >>, bad |-> FALSE]
Truncated == [entries |-> <<>>, bad |-> TRUE]

\* the paths and payloads of the scenarios
RoomA == { <<"/", "a">> }
FirstTwo == 1..(NConn - 1)
LightStateVectors == { {}, {1} }
LightBlobs == { {1} }
LightAwareness == { OneEntry(1, 1, "x"), OneEntry(1, 1, Null), Truncated }
IdsAwareness ==
    { u \in AwarenessUpdates :
        u.bad => \A i \in 1..Len(u.entries) : u.entries[i].clock = MaxClock }
ThreeWayAwareness == { OneEntry(1, 1, "x"), OneEntry(2, 1, "x"), OneEntry(1, 1, Null) }

\* three sockets in one room, every kind of event, light payloads
Next ==
    \/ \E c \in Conns, url \in RoomA : Connect(c, url)
    \/ \E c \in Conns, sv \in LightStateVectors : MessageSyncStep1(c, sv)
    \/ \E c \in Conns, sub \in SyncUpdateSubs, u \in LightBlobs : MessageSyncUpdate(c, sub, u)
    \/ \E c \in Conns, u \in LightAwareness : MessageAwareness(c, u)
    \/ \E c \in Conns : MessageStats(c)
    \/ \E c \in Conns, why \in DropReasons : MessageDropped(c, why)
    \/ \E c \in Conns : TransportDown(c)
    \/ \E c \in Conns : Close(c)
    \/ \E c \in Conns : SendFail(c)
    \/ \E d \in Docs, ids \in TimeoutLists : AwarenessTimeout(d, ids)

Spec == Init /\ [][Next]_vars

\* three sockets over every path: the registry, the rooms, the statistics
NextRooms ==
    \/ \E c \in Conns, url \in Urls : Connect(c, url)
    \/ \E c \in Conns : MessageStats(c)
    \/ \E c \in Conns, why \in DropReasons : MessageDropped(c, why)
    \/ \E c \in Conns : TransportDown(c)
    \/ \E c \in Conns : Close(c)
    \/ \E c \in Conns : SendFail(c)

SpecRooms == Init /\ [][NextRooms]_vars

\* three sockets in one room exchanging every document update and state vector
NextDocs ==
    \/ \E c \in Conns, url \in RoomA : Connect(c, url)
    \/ \E c \in Conns, sv \in StateVectors : MessageSyncStep1(c, sv)
    \/ \E c \in Conns, sub \in SyncUpdateSubs, u \in UpdateBlobs : MessageSyncUpdate(c, sub, u)
    \/ \E c \in Conns : TransportDown(c)
    \/ \E c \in Conns : Close(c)
    \/ \E c \in Conns : SendFail(c)

SpecDocs == Init /\ [][NextDocs]_vars

\* two sockets in one room exchanging every presence payload
NextIds ==
    \/ \E c \in FirstTwo, url \in RoomA : Connect(c, url)
    \/ \E c \in Conns, u \in IdsAwareness : MessageAwareness(c, u)
    \/ \E c \in Conns, why \in DropReasons : MessageDropped(c, why)
    \/ \E c \in Conns : TransportDown(c)
    \/ \E c \in Conns : Close(c)
    \/ \E c \in Conns : SendFail(c)
    \/ \E d \in Docs, ids \in TimeoutLists : AwarenessTimeout(d, ids)

SpecIds == Init /\ [][NextIds]_vars

\* three sockets in one room announcing and withdrawing two participants
NextPresence ==
    \/ \E c \in Conns, url \in RoomA : Connect(c, url)
    \/ \E c \in Conns, u \in ThreeWayAwareness : MessageAwareness(c, u)
    \/ \E c \in Conns : TransportDown(c)
    \/ \E c \in Conns : Close(c)
    \/ \E c \in Conns : SendFail(c)
    \/ \E d \in Docs, ids \in TimeoutLists : AwarenessTimeout(d, ids)

SpecPresence == Init /\ [][NextPresence]_vars

\* two sockets over two paths, every kind of event, light payloads
TwoRooms == { <<"/">>, <<"/", "a">> }

NextTwoRooms ==
    \/ \E c \in FirstTwo, url \in TwoRooms : Connect(c, url)
    \/ \E c \in Conns, sv \in LightStateVectors : MessageSyncStep1(c, sv)
    \/ \E c \in Conns, sub \in SyncUpdateSubs, u \in LightBlobs : MessageSyncUpdate(c, sub, u)
    \/ \E c \in Conns, u \in LightAwareness : MessageAwareness(c, u)
    \/ \E c \in Conns : MessageStats(c)
    \/ \E c \in Conns, why \in DropReasons : MessageDropped(c, why)
    \/ \E c \in Conns : TransportDown(c)
    \/ \E c \in Conns : Close(c)
    \/ \E c \in Conns : SendFail(c)
    \/ \E d \in Docs, ids \in TimeoutLists : AwarenessTimeout(d, ids)

SpecTwoRooms == Init /\ [][NextTwoRooms]_vars

\* ------------------------------------------------------------ properties
\* ws is in the connection set of the room its handlers close over
Registered(c) == wsDoc[c] # NoDoc /\ HasConn(conns[wsDoc[c]], c)

\* the positions of the frames of one type handed to the socket c
FramesTo(o, c, type) ==
    { i \in 1..Len(o) : o[i].to = c /\ o[i].frame.type = type }

\* the sockets that were handed a frame
Receivers(o) == { o[i].to : i \in 1..Len(o) }

\* C1 (as amended): when the room's doc integrates something new from a SYNC
\* frame of connection a, every other connection registered in the room whose
\* socket is open is handed exactly one update frame carrying exactly what
\* was integrated, and a is handed no SYNC frame at all.
C1_UpdateFanOut ==
    [][\A a \in Conns :
        (ev'.type = "syncUpdate" /\ ev'.ws = a /\ ydoc'[wsDoc[a]] # ydoc[wsDoc[a]]) =>
            LET d == wsDoc[a]
                new == ydoc'[d] \ ydoc[d]
            IN /\ \A b \in ConnSet(conns[d]) \ {a} :
                     readyState[b] = "OPEN" =>
                        /\ Cardinality(FramesTo(out', b, messageSync)) = 1
                        /\ \A i \in FramesTo(out', b, messageSync) :
                              out'[i].frame = SyncUpdateFrame(new)
               /\ FramesTo(out', a, messageSync) = {}
               /\ \A b \in ConnSet(conns[d]) \ {a} :
                     readyState[b] # "OPEN" =>
                        /\ FramesTo(out', b, messageSync) = {}
                        /\ ~HasConn(conns'[d], b)]_vars

\* C1 as stated: every connection registered in the room other than a is sent
\* the update frame, and a none.
C1_AsStated ==
    [][\A a \in Conns :
        (ev'.type = "syncUpdate" /\ ev'.ws = a /\ ydoc'[wsDoc[a]] # ydoc[wsDoc[a]]) =>
            LET d == wsDoc[a]
                new == ydoc'[d] \ ydoc[d]
            IN /\ \A b \in ConnSet(conns[d]) \ {a} :
                     \E i \in FramesTo(out', b, messageSync) :
                        out'[i].frame = SyncUpdateFrame(new)
               /\ FramesTo(out', a, messageSync) = {}]_vars

\* an update of a registered connection has gone out to the two others
C1_Witness ==
    /\ ev.type = "syncUpdate"
    /\ Registered(ev.ws)
    /\ Len(out) = NConn - 1
    /\ Receivers(out) = Conns \ {ev.ws}
    /\ \A i \in 1..Len(out) : out[i].frame.sub = "update"

\* the ids of the entries of a presence payload
EntryIds(body) == { body[j].id : j \in 1..Len(body) }

\* C2: when a connection joins a room whose awareness holds N >= 1 states, it is
\* handed exactly one PRESENCE frame in its 'connection' event, the snapshot,
\* which carries the N ids with their clocks and states; and a PRESENCE frame
\* that is not a snapshot only ever goes to a socket whose 'connection' event
\* is past, so the snapshot comes before any delta.
C2_SnapshotOnJoin ==
    [][/\ \A c \in Conns :
            (ev'.type = "connect" /\ ev'.ws = c /\ Len(awStates[wsDoc'[c]]) >= 1) =>
                LET d == wsDoc'[c]
                    table == awStates[d]
                IN /\ wsDoc[c] = NoDoc
                   /\ Cardinality(FramesTo(out', c, messageAwareness)) = 1
                   /\ \A i \in FramesTo(out', c, messageAwareness) :
                         /\ i = Len(out')
                         /\ out'[i].frame.sub = "snapshot"
                         /\ Len(out'[i].frame.body) = Len(table)
                         /\ EntryIds(out'[i].frame.body) = SeqToSet(StateKeys(table))
                         /\ \A j \in 1..Len(table) :
                               /\ out'[i].frame.body[j].state = StateOf(table, out'[i].frame.body[j].id)
                               /\ out'[i].frame.body[j].clock = awMeta[d][out'[i].frame.body[j].id]
       /\ \A i \in 1..Len(out') :
            (out'[i].frame.type = messageAwareness /\ out'[i].frame.sub # "snapshot")
                => wsDoc[out'[i].to] # NoDoc]_vars

\* a third connection has joined a room with two participants and got both
C2_Witness ==
    /\ ev.type = "connect"
    /\ ev.ws = NConn
    /\ \E i \in FramesTo(out, ev.ws, messageAwareness) :
          /\ out[i].frame.sub = "snapshot"
          /\ EntryIds(out[i].frame.body) = Pids

\* the positions of the PRESENCE frames handed to b that announce the removal
\* of one of ids
RemovalFramesFor(o, b, ids) ==
    { i \in FramesTo(o, b, messageAwareness) :
        \E j \in 1..Len(o[i].frame.body) :
            o[i].frame.body[j].id \in ids /\ o[i].frame.body[j].state = Null }

\* C3 (as amended): when the 'close' event or a failed write deregisters a
\* connection whose controlled-id set holds k >= 1 ids, every connection that
\* remains registered is handed exactly one removal frame, covering exactly
\* those of the k ids that still have a state in the awareness (and no frame
\* when none has); afterwards none of the k ids has a state.
C3_RemovalOnDisconnect ==
    [][\A a \in Conns :
        (/\ ev'.type \in {"close", "sendFail"}
         /\ ev'.ws = a
         /\ Registered(a)
         /\ Len(ControlledIds(conns[wsDoc[a]], a)) >= 1) =>
            LET d == wsDoc[a]
                ids == SeqToSet(ControlledIds(conns[d], a))
                present == { id \in ids : HasState(awStates[d], id) }
            IN /\ \A b \in ConnSet(conns'[d]) :
                     IF present = {}
                     THEN RemovalFramesFor(out', b, ids) = {}
                     ELSE /\ Cardinality(RemovalFramesFor(out', b, ids)) = 1
                          /\ \A i \in RemovalFramesFor(out', b, ids) :
                                /\ EntryIds(out'[i].frame.body) = present
                                /\ \A j \in 1..Len(out'[i].frame.body) :
                                      out'[i].frame.body[j].state = Null
               /\ \A id \in ids : ~HasState(awStates'[d], id)]_vars

\* C3 as stated: every remaining connection is handed exactly one removal
\* frame and it covers exactly the k controlled ids; afterwards none has a state.
C3_AsStated ==
    [][\A a \in Conns :
        (/\ ev'.type \in {"close", "sendFail"}
         /\ ev'.ws = a
         /\ Registered(a)
         /\ Len(ControlledIds(conns[wsDoc[a]], a)) >= 1) =>
            LET d == wsDoc[a]
                ids == SeqToSet(ControlledIds(conns[d], a))
            IN /\ \A b \in ConnSet(conns'[d]) :
                     /\ Cardinality(RemovalFramesFor(out', b, ids)) = 1
                     /\ \A i \in RemovalFramesFor(out', b, ids) :
                           EntryIds(out'[i].frame.body) = ids
               /\ \A id \in ids : ~HasState(awStates'[d], id)]_vars

\* a connection that controlled both participants has gone and the two
\* connections that remain were each handed the removal of both
C3_Witness ==
    /\ ev.type \in {"close", "sendFail"}
    /\ \E d \in Docs :
          /\ Cardinality(ConnSet(conns[d])) = NConn - 1
          /\ awStates[d] = <<>>
          /\ \A b \in ConnSet(conns[d]) :
                \E i \in FramesTo(out, b, messageAwareness) :
                   /\ EntryIds(out[i].frame.body) = Pids
                   /\ \A j \in 1..Len(out[i].frame.body) : out[i].frame.body[j].state = Null

\* the events that are the arrival of a frame
FrameEvents == {"syncStep1", "syncUpdate", "awareness", "stats", "dropped"}

\* C4: after every event each room in the registry has at least one registered
\* connection (and is the live doc of its name), and a room whose connection
\* set becomes empty is destroyed and out of the registry in that same step.
C4_NoEmptyRoom ==
    [][/\ \A n \in Names :
            docs'[n] # NoDoc =>
                /\ Len(conns'[docs'[n]]) >= 1
                /\ docName'[docs'[n]] = n
                /\ ~destroyed'[docs'[n]]
       /\ \A d \in Docs :
            (Len(conns[d]) >= 1 /\ Len(conns'[d]) = 0) =>
                /\ docs'[docName[d]] # d
                /\ destroyed'[d] \/ docName'[d] = NoName]_vars

\* a failed write has deregistered the last connection of a room: the room is
\* destroyed and the registry has no entry for its name
C4_Witness ==
    /\ ev.type = "sendFail"
    /\ wsDoc[ev.ws] # NoDoc
    /\ destroyed[wsDoc[ev.ws]]
    /\ conns[wsDoc[ev.ws]] = <<>>
    /\ docs[docName[wsDoc[ev.ws]]] = NoDoc

\* C5: a connection to a name under which no connection is registered gets a
\* room whose doc and awareness are empty: its handshake is a Sync Step 1 with
\* an empty state vector and no presence snapshot; and no frame of a socket of
\* another doc (an earlier incarnation) changes the doc or awareness of a room.
C5_FreshRoom ==
    [][/\ \A c \in Conns :
            (ev'.type = "connect" /\ ev'.ws = c) =>
                LET d == wsDoc'[c]
                    n == docName'[d]
                IN (\A e \in Docs : docName[e] = n => conns[e] = <<>>) =>
                      /\ ydoc'[d] = {}
                      /\ awStates'[d] = <<>>
                      /\ \A p \in Pids : awMeta'[d][p] = NoClock
                      /\ out' = << [to |-> c, frame |-> SyncStep1Frame({})] >>
       /\ \A d \in Docs :
            (ev'.type \in FrameEvents /\ wsDoc[ev'.ws] # d) =>
                /\ ydoc'[d] = ydoc[d]
                /\ awStates'[d] = awStates[d]
                /\ awMeta'[d] = awMeta[d]]_vars

\* a connection has been given a fresh room while a socket of the earlier
\* incarnation of that name is still around, its doc holding an update and
\* its awareness the clock of a participant
C5_Witness ==
    /\ ev.type = "connect"
    /\ ydoc[wsDoc[ev.ws]] = {}
    /\ \E e \in Docs :
          /\ e # wsDoc[ev.ws]
          /\ docName[e] = docName[wsDoc[ev.ws]]
          /\ ydoc[e] # {}
          /\ \E p \in Pids : awMeta[e][p] # NoClock

\* C6: the connections registered under one name are all in one room, the one
\* the registry holds for the name; and a connection that arrives for a name
\* whose room has a registered connection is appended to that room's
\* connection set, the room's doc and awareness being left as they were.
C6_OneRoomPerName ==
    [][/\ \A b \in Conns :
            Registered(b)' =>
                /\ docs'[docName'[wsDoc'[b]]] = wsDoc'[b]
                /\ \A c \in Conns :
                      (Registered(c)' /\ docName'[wsDoc'[c]] = docName'[wsDoc'[b]])
                          => wsDoc'[c] = wsDoc'[b]
       /\ \A c \in Conns, d \in Docs :
            (/\ ev'.type = "connect" /\ ev'.ws = c
             /\ docName[d] = docName'[wsDoc'[c]]
             /\ conns[d] # <<>>) =>
                /\ wsDoc'[c] = d
                /\ conns'[d] = Append(conns[d], [ws |-> c, ids |-> <<>>])
                /\ ydoc'[d] = ydoc[d]
                /\ awStates'[d] = awStates[d]]_vars

\* after a disconnect, a connection has joined the room of another one
C6_Witness ==
    /\ ev.type = "connect"
    /\ Len(conns[wsDoc[ev.ws]]) = 2
    /\ \E c \in Conns : readyState[c] = "CLOSED"

\* C8: a STATS frame of an open socket is answered with one frame, to that
\* socket, whose count is the number of connections registered in the room of
\* the socket; no STATS frame is sent otherwise.
C8_StatsCount ==
    [][/\ \A c \in Conns :
            (ev'.type = "stats" /\ ev'.ws = c /\ readyState[c] = "OPEN") =>
                out' = << [to |-> c,
                           frame |-> StatsFrame(Cardinality(
                               { b \in Conns : Registered(b) /\ wsDoc[b] = wsDoc[c] }))] >>
       /\ \A i \in 1..Len(out') :
            out'[i].frame.type = messageStats =>
                ev'.type = "stats" /\ out'[i].to = ev'.ws]_vars

\* a STATS frame was answered with 2 while three connections are registered
C8_Witness ==
    /\ ev.type = "stats"
    /\ out = << [to |-> ev.ws, frame |-> StatsFrame(2)] >>
    /\ Cardinality({ b \in Conns : Registered(b) }) = NConn

\* C7: the reply to a Sync Step 1 of an open socket is one Step 2 frame, to that
\* socket, carrying exactly the updates the room's doc has integrated and the
\* received state vector lacks: all of them when the state vector is empty.
C7_Step2Difference ==
    [][\A c \in Conns, sv \in StateVectors :
        (/\ ev'.type = "syncStep1" /\ ev'.ws = c
         /\ readyState[c] = "OPEN"
         /\ MessageSyncStep1(c, sv)) =>
            /\ out' = << [to |-> c, frame |-> SyncStep2Frame(ydoc[wsDoc[c]] \ sv)] >>
            /\ (sv = {} => out'[1].frame.body = ydoc[wsDoc[c]])]_vars

\* after an update of the first connection was integrated the second one asked
\* with an empty state vector, and the reply held that update
C7_Witness ==
    /\ ev.type = "syncStep1"
    /\ ev.ws = 2
    /\ Registered(1)
    /\ wsDoc[1] = wsDoc[2]
    /\ \E i \in FramesTo(out, 2, messageSync) :
          /\ out[i].frame.sub = "step2"
          /\ out[i].frame.body = ydoc[wsDoc[2]]
          /\ out[i].frame.body # {}

\* the positions of the frames handed to b that carry the received payload
ForwardsTo(o, b, update) ==
    { i \in FramesTo(o, b, messageAwareness) :
        o[i].frame = AwarenessFrame("raw", update.entries) }

C10_NoPresenceEcho ==
    [][\A a \in Conns :
        (ev'.type = "awareness" /\ ev'.ws = a) =>
            FramesTo(out', a, messageAwareness) = {}]_vars

\* C11: a frame whose handling throws (type tag or SYNC payload that does not
\* decode, PRESENCE payload that does not decode or merge) makes the relay
\* send nothing and leaves every connection set, every controlled-id set,
\* every socket's readyState and the registry as they were; the sender's
\* handler stays attached, so its later frames are handled.
C11_ThrowKeepsConnection ==
    [][\A a \in Conns :
        \/ /\ out' = <<>>
           /\ conns' = conns
           /\ readyState' = readyState
           /\ docs' = docs
           /\ wsDoc' = wsDoc
           /\ ydoc' = ydoc
           /\ CanReceive(a)'
        \/ ~ \/ ev'.type = "dropped" /\ ev'.ws = a
             \/ /\ ev'.type = "awareness" /\ ev'.ws = a
                /\ \E u \in IdsAwareness : u.bad /\ MessageAwareness(a, u)]_vars

\* a presence frame of an open registered connection that controls an id was
\* dropped after one entry of its payload had been merged: the merged entry
\* is in the awareness, and the connection is as it was
C11_Witness ==
    /\ ev.type = "awareness"
    /\ out = <<>>
    /\ Registered(ev.ws)
    /\ readyState[ev.ws] = "OPEN"
    /\ Len(ControlledIds(conns[wsDoc[ev.ws]], ev.ws)) = 1
    /\ Len(awStates[wsDoc[ev.ws]]) = MaxPid
    /\ \A b \in ConnSet(conns[wsDoc[ev.ws]]) :
          Cardinality(SeqToSet(ControlledIds(conns[wsDoc[ev.ws]], b))) <= 1
    /\ Cardinality(ConnSet(conns[wsDoc[ev.ws]])) = 1

\* the relay calls send for b while it handles the step: b asked for a reply
\* (Sync Step 1, STATS), or b is registered in the room of the sender of a
\* document update that was integrated or of a presence payload that merged
SendAttempted(b) ==
    \/ ev'.type \in {"syncStep1", "stats"} /\ ev'.ws = b
    \/ /\ ev'.type = "syncUpdate" /\ ev'.ws # b
       /\ HasConn(conns[wsDoc[ev'.ws]], b)
       /\ ydoc'[wsDoc[ev'.ws]] # ydoc[wsDoc[ev'.ws]]
    \/ /\ ev'.type = "awareness" /\ ev'.ws # b
       /\ HasConn(conns[wsDoc[ev'.ws]], b)
       /\ \E u \in LightAwareness : ~u.bad /\ MessageAwareness(ev'.ws, u)

\* C12: a connection for which send is called while its socket is not open,
\* or whose write fails, is not registered afterwards; and whenever a
\* connection leaves the connection set of its room, none of the ids of its
\* controlled-id set has a state afterwards, and the room, if no connection
\* remains, is destroyed and out of the registry.
C12_DeadConnectionCleanup ==
    [][\A b \in Conns :
        /\ (\/ ev'.type = "sendFail" /\ ev'.ws = b
            \/ wsDoc[b] # NoDoc /\ readyState[b] # "OPEN" /\ SendAttempted(b))
              => ~HasConn(conns'[wsDoc[b]], b)
        /\ (Registered(b) /\ ~HasConn(conns'[wsDoc[b]], b)) =>
              LET d == wsDoc[b]
              IN /\ \A id \in SeqToSet(ControlledIds(conns[d], b)) :
                        ~HasState(awStates'[d], id)
                 /\ conns'[d] = <<>> =>
                        /\ docs'[docName[d]] # d
                        /\ destroyed'[d] \/ docName'[d] = NoName]_vars

\* a STATS frame came from the last connection of a room after its transport
\* had gone down: instead of a reply the connection was deregistered, the
\* participant it controlled removed and the room destroyed
C12_Witness ==
    /\ ev.type = "stats"
    /\ out = <<>>
    /\ readyState[ev.ws] = "CLOSING"
    /\ destroyed[wsDoc[ev.ws]]
    /\ conns[wsDoc[ev.ws]] = <<>>
    /\ awStates[wsDoc[ev.ws]] = <<>>
    /\ \E p \in Pids : awMeta[wsDoc[ev.ws]][p] # NoClock
    /\ docs[docName[wsDoc[ev.ws]]] = NoDoc

\* the merge of the payload changes or renews an entry, so 'update' is emitted
MergeEmits(d, update) ==
    LET acc == ApplyAwarenessEntries(
                   [states |-> awStates[d], meta |-> awMeta[d],
                    added |-> <<>>, updated |-> <<>>, removed |-> <<>>],
                   update.entries)
    IN ~update.bad /\ ~destroyed[d]
       /\ Len(acc.added) + Len(acc.updated) + Len(acc.removed) > 0

\* a connection registered in the room d whose socket is not open
DeadIn(d) == { b \in ConnSet(conns[d]) : readyState[b] # "OPEN" }

\* C13: when the room of the sender a holds a registered connection whose
\* socket is not open, an integrated document update still reaches every open
\* registered connection but a exactly once, a merged presence payload is
\* still forwarded exactly once to every open registered connection but a,
\* and the re-encoded presence change still reaches every open registered one.
C13_BroadcastSurvivesDead ==
    [][\A a \in Conns :
        /\ (/\ ev'.type = "syncUpdate" /\ ev'.ws = a
            /\ DeadIn(wsDoc[a]) \ {a} # {}
            /\ ydoc'[wsDoc[a]] # ydoc[wsDoc[a]]) =>
              \A c \in ConnSet(conns[wsDoc[a]]) \ {a} :
                 readyState[c] = "OPEN" =>
                    /\ Cardinality(FramesTo(out', c, messageSync)) = 1
                    /\ \A i \in FramesTo(out', c, messageSync) :
                          out'[i].frame =
                              SyncUpdateFrame(ydoc'[wsDoc[a]] \ ydoc[wsDoc[a]])
        /\ \A u \in LightAwareness :
              (/\ ev'.type = "awareness" /\ ev'.ws = a
               /\ DeadIn(wsDoc[a]) # {}
               /\ ~u.bad
               /\ MessageAwareness(a, u)) =>
                 \A c \in ConnSet(conns[wsDoc[a]]) :
                    readyState[c] = "OPEN" =>
                       /\ c # a => Cardinality(ForwardsTo(out', c, u)) = 1
                       /\ MergeEmits(wsDoc[a], u) =>
                             \E i \in FramesTo(out', c, messageAwareness) :
                                out'[i].frame = AwarenessFrame("change", u.entries)]_vars

\* a document update met a connection whose socket was not open (the removal
\* of its participant went out in the same step) and still reached a
\* connection that comes after it in the connection set
C13_Witness ==
    /\ ev.type = "syncUpdate"
    /\ \E b \in Conns, c \in Conns :
          /\ b < c /\ c # ev.ws /\ b # ev.ws
          /\ wsDoc[b] = wsDoc[ev.ws] /\ wsDoc[c] = wsDoc[ev.ws]
          /\ readyState[b] = "CLOSING"
          /\ ~HasConn(conns[wsDoc[b]], b)
          /\ readyState[c] = "OPEN"
          /\ RemovalFramesFor(out, c, Pids) # {}
          /\ \E i \in FramesTo(out, c, messageSync) : out[i].frame.sub = "update"

\* C14: a step changes one doc object at most, the room r1 of the socket the
\* event is for: every other doc keeps its document, awareness, connection
\* set and controlled-id sets, a room that is in the registry stays there, and
\* every frame of the step goes to a socket of r1.
C14_RoomIsolation ==
    [][\E r1 \in Docs :
        /\ ev'.ws # NoConn =>
              r1 = IF ev'.type = "connect" THEN wsDoc'[ev'.ws] ELSE wsDoc[ev'.ws]
        /\ \A d \in Docs \ {r1} :
              /\ ydoc'[d] = ydoc[d]
              /\ awStates'[d] = awStates[d]
              /\ awMeta'[d] = awMeta[d]
              /\ conns'[d] = conns[d]
              /\ destroyed'[d] = destroyed[d]
              /\ docName'[d] = docName[d]
              /\ (docName[d] # NoName /\ docs[docName[d]] = d) => docs'[docName[d]] = d
        /\ \A n \in Names :
              (docs[n] # r1 /\ docs'[n] # r1) => docs'[n] = docs[n]
        /\ \A i \in 1..Len(out') : wsDoc'[out'[i].to] = r1]_vars

\* the only connection of a room has gone through a failed write and the room
\* is destroyed, while the other room still has its connection, its document
\* update and its participant
C14_Witness ==
    /\ ev.type = "sendFail"
    /\ destroyed[wsDoc[ev.ws]]
    /\ \E c \in Conns :
          /\ Registered(c)
          /\ wsDoc[c] # wsDoc[ev.ws]
          /\ docs[docName[wsDoc[c]]] = wsDoc[c]
          /\ ydoc[wsDoc[c]] # {}
          /\ awStates[wsDoc[c]] # <<>>

\* C15: the update frames of a step all carry the update the room's doc
\* integrates in that very step, and a connection is handed one at most; so a
\* connection gets the frames of two updates in the order of the steps that
\* integrated them, none being sent early, late or again.
C15_UpdateOrder ==
    [][\A i \in 1..Len(out') :
        (out'[i].frame.type = messageSync /\ out'[i].frame.sub = "update") =>
            /\ ev'.type = "syncUpdate"
            /\ out'[i].frame.body # {}
            /\ out'[i].frame.body = ydoc'[wsDoc[ev'.ws]] \ ydoc[wsDoc[ev'.ws]]
            /\ wsDoc[out'[i].to] = wsDoc[ev'.ws]
            /\ \A j \in 1..Len(out') :
                  (out'[j].to = out'[i].to /\ out'[j].frame.type = messageSync) => j = i]_vars

\* the second update of a room went out to two connections, after the first
\* had been integrated in an earlier step
C15_Witness ==
    /\ ev.type = "syncUpdate"
    /\ ydoc[wsDoc[ev.ws]] = Updates
    /\ Cardinality(Receivers(out)) = NConn - 1
    /\ \A i \in 1..Len(out) :
          /\ out[i].frame.sub = "update"
          /\ Cardinality(out[i].frame.body) = 1

C17_SyncReplies ==
    [][\A a \in Conns :
        /\ (ev'.type = "syncStep1" /\ ev'.ws = a) =>
              /\ ydoc' = ydoc
              /\ readyState[a] = "OPEN" =>
                    /\ Len(out') = 1
                    /\ out'[1].to = a
                    /\ out'[1].frame.type = messageSync
                    /\ out'[1].frame.sub = "step2"
              /\ readyState[a] # "OPEN" =>
                    /\ Receivers(out') \cap {a} = {}
                    /\ ~HasConn(conns'[wsDoc[a]], a)
        /\ (ev'.type = "syncUpdate" /\ ev'.ws = a) =>
              FramesTo(out', a, messageSync) = {}]_vars

\* C17 as stated: a Sync Step 1 of a is answered with exactly one frame, a
\* Step 2 to a, nothing goes to anyone else and the docs are unchanged; a
\* Step 2 or Update of a is not answered.
C17_AsStated ==
    [][\A a \in Conns :
        /\ (ev'.type = "syncStep1" /\ ev'.ws = a) =>
              /\ ydoc' = ydoc
              /\ Len(out') = 1
              /\ out'[1].to = a
              /\ out'[1].frame.type = messageSync
              /\ out'[1].frame.sub = "step2"
        /\ (ev'.type = "syncUpdate" /\ ev'.ws = a) =>
              FramesTo(out', a, messageSync) = {}]_vars

\* with three connections registered, one asked with a Sync Step 1 and the
\* only frame of the step is the Step 2 it got
C17_Witness ==
    /\ ev.type = "syncStep1"
    /\ \A c \in Conns : Registered(c)
    /\ Len(out) = 1
    /\ out[1].to = ev.ws
    /\ out[1].frame.sub = "step2"
    /\ out[1].frame.body # {}

\* C18: after the 'connection' event of a socket c, which had been sent
\* nothing before, c is registered in its room with an empty controlled-id
\* set, every frame of the step is for c, and the first one is a Sync Step 1
\* carrying the state vector of the room's doc as of the connect (empty for
\* a room created by the connect), which the connect leaves unchanged.
C18_ConnectHandshake ==
    [][\A c \in Conns :
        (ev'.type = "connect" /\ ev'.ws = c) =>
            LET d == wsDoc'[c]
                before == IF docName[d] # NoName THEN ydoc[d] ELSE {}
            IN /\ wsDoc[c] = NoDoc
               /\ Registered(c)'
               /\ ControlledIds(conns'[d], c) = <<>>
               /\ ydoc'[d] = before
               /\ Len(out') >= 1
               /\ out'[1] = [to |-> c, frame |-> SyncStep1Frame(before)]
               /\ Receivers(out') = {c}]_vars

\* a connection has joined a room whose doc holds every update: it is
\* registered, controls nothing, and was sent that state vector first
C18_Witness ==
    /\ ev.type = "connect"
    /\ Registered(ev.ws)
    /\ ControlledIds(conns[wsDoc[ev.ws]], ev.ws) = <<>>
    /\ Len(conns[wsDoc[ev.ws]]) = 2
    /\ out = << [to |-> ev.ws, frame |-> SyncStep1Frame(Updates)] >>

\* C19 (as amended): the 'connection' event of a socket c sends c a single
\* PRESENCE frame, a snapshot with one entry per participant of the room's
\* awareness, when the awareness holds at least one state; when it holds
\* none (a room the connect has created, or one whose participants have all
\* been removed), the Sync Step 1 is all that is sent.
C19_SnapshotUnlessEmpty ==
    [][\A c \in Conns :
        (ev'.type = "connect" /\ ev'.ws = c) =>
            LET d == wsDoc'[c]
                table == awStates'[d]
                snaps == FramesTo(out', c, messageAwareness)
            IN /\ Len(table) >= 1 =>
                    /\ Len(out') = 2
                    /\ snaps = {2}
                    /\ out'[2].frame =
                         AwarenessFrame("snapshot",
                             [i \in 1..Len(table) |->
                                 [id |-> table[i].id,
                                  clock |-> awMeta'[d][table[i].id],
                                  state |-> table[i].state]])
               /\ Len(table) = 0 =>
                    /\ Len(out') = 1
                    /\ snaps = {}]_vars

\* C19 as stated: every connect sends the joiner one PRESENCE snapshot frame
C19_AsStated ==
    [][\A c \in Conns :
        (ev'.type = "connect" /\ ev'.ws = c) =>
            /\ Cardinality(FramesTo(out', c, messageAwareness)) = 1
            /\ \A i \in FramesTo(out', c, messageAwareness) :
                  out'[i].frame.sub = "snapshot"]_vars

\* a connection has joined a room with one participant and was sent the
\* Sync Step 1 and then that participant's snapshot
C19_Witness ==
    /\ ev.type = "connect"
    /\ Len(conns[wsDoc[ev.ws]]) = 2
    /\ Len(awStates[wsDoc[ev.ws]]) = 1
    /\ Len(out) = 2
    /\ out[2].to = ev.ws
    /\ out[2].frame.sub = "snapshot"
    /\ Len(out[2].frame.body) = 1

\* C20 (as amended): a STATS frame of a socket a that is open is answered
\* with one stats frame, to a; it is the only frame of the step, and the
\* docs, the awareness states and clocks, the room registry, and the
\* connections of every room with their controlled ids are unchanged.  A
\* STATS frame of a socket that is no longer open is not answered: nothing
\* is sent to a, a is not registered afterwards, and the docs are unchanged.
C20_StatsReadOnly ==
    [][\A a \in Conns :
        (ev'.type = "stats" /\ ev'.ws = a) =>
            /\ readyState[a] = "OPEN" =>
                  /\ Len(out') = 1
                  /\ out'[1].to = a
                  /\ out'[1].frame.type = messageStats
                  /\ ydoc' = ydoc
                  /\ awStates' = awStates
                  /\ awMeta' = awMeta
                  /\ conns' = conns
                  /\ docs' = docs
            /\ readyState[a] # "OPEN" =>
                  /\ Receivers(out') \cap {a} = {}
                  /\ ~Registered(a)'
                  /\ \A d \in Docs : docName'[d] # NoName => ydoc'[d] = ydoc[d]]_vars

\* C20 as stated: a STATS frame of a is answered with one frame, to a,
\* nothing goes to anyone else, and the docs, the awareness and the
\* connections with their controlled ids are unchanged.
C20_AsStated ==
    [][\A a \in Conns :
        (ev'.type = "stats" /\ ev'.ws = a) =>
            /\ Len(out') = 1
            /\ out'[1].to = a
            /\ out'[1].frame.type = messageStats
            /\ ydoc' = ydoc
            /\ awStates' = awStates
            /\ awMeta' = awMeta
            /\ conns' = conns]_vars

\* a STATS frame was answered in a room that holds a doc update, a
\* participant, and three connections one of which controls that participant
C20_Witness ==
    /\ ev.type = "stats"
    /\ out = << [to |-> ev.ws, frame |-> StatsFrame(NConn)] >>
    /\ ydoc[wsDoc[ev.ws]] # {}
    /\ Len(awStates[wsDoc[ev.ws]]) >= 1
    /\ \E c \in Conns :
          Registered(c) /\ ControlledIds(conns[wsDoc[c]], c) # <<>>

\* what the merge of the payload into the awareness of d reports: the ids it
\* added, updated and removed
MergeReport(d, update) ==
    ApplyAwarenessEntries(
        [states |-> awStates[d], meta |-> awMeta[d],
         added |-> <<>>, updated |-> <<>>, removed |-> <<>>],
        update.entries)

\* C21: when a PRESENCE frame of a registered connection a has been merged,
\* the controlled ids of a hold every id the merge reported as added and none
\* it reported as removed, and every other connection that is still
\* registered controls what it controlled before.  If a itself was found
\* not open by the broadcast and deregistered in the same step, the ids it
\* added went with it: they are not in the awareness any more.
C21_ControlledIdsTrackMerge ==
    [][\A a \in Conns, u \in ThreeWayAwareness :
        \/ ~(ev'.type = "awareness" /\ ev'.ws = a /\ Registered(a))
        \/ awMeta'[wsDoc[a]] # MergeReport(wsDoc[a], u).meta
        \/ LET d == wsDoc[a]
               r == MergeReport(d, u)
           IN /\ Registered(a)' =>
                    /\ SeqToSet(r.added) \subseteq SeqToSet(ControlledIds(conns'[d], a))
                    /\ SeqToSet(r.removed) \cap SeqToSet(ControlledIds(conns'[d], a)) = {}
              /\ ~Registered(a)' =>
                    \A id \in SeqToSet(r.added) : ~HasState(awStates'[d], id)
              /\ \A b \in Conns \ {a} :
                    (Registered(b) /\ Registered(b)') =>
                        ControlledIds(conns'[wsDoc[b]], b) = ControlledIds(conns[wsDoc[b]], b)
        \/ ~MessageAwareness(a, u)]_vars

\* both connections of the room are registered after a presence frame, and
\* each controls the participant it has added
C21_Witness ==
    /\ ev.type = "awareness"
    /\ \A c \in FirstTwo :
          Registered(c) /\ ControlledIds(conns[wsDoc[c]], c) = << c >>

\* the ids some connection registered in the room d controls
ControlledIn(d) ==
    UNION { SeqToSet(ControlledIds(conns[d], b)) : b \in ConnSet(conns[d]) }

\* C22: in every state, every id that has a state in the awareness of a room
\* of the registry is among the controlled ids of a connection registered in
\* that room.
C22_EveryEntryControlled ==
    \A n \in Names :
        docs[n] # NoDoc =>
            SeqToSet(StateKeys(awStates[docs[n]])) \subseteq ControlledIn(docs[n])

\* C23: after every event no id is among the controlled ids of two
\* connections registered in the same room; and the 'close' event or failed
\* write of a connection leaves every state of an id that another connection,
\* registered before and after, controls in the awareness as it was.
C23_OneControllerPerId ==
    [][/\ \A d \in Docs : \A a \in ConnSet(conns'[d]), b \in ConnSet(conns'[d]) :
            a # b =>
                SeqToSet(ControlledIds(conns'[d], a))
                    \cap SeqToSet(ControlledIds(conns'[d], b)) = {}
       /\ ev'.type \in {"close", "sendFail"} =>
            \A b \in Conns \ {ev'.ws} :
                (Registered(b) /\ Registered(b)') =>
                    \A id \in SeqToSet(ControlledIds(conns[wsDoc[b]], b)) :
                        /\ HasState(awStates[wsDoc[b]], id) = HasState(awStates'[wsDoc[b]], id)
                        /\ StateOf(awStates[wsDoc[b]], id) = StateOf(awStates'[wsDoc[b]], id)]_vars

\* a connection that controlled a participant has had its 'close' event and
\* its participant is gone, while the participant the other connection
\* controls is still in the awareness
C23_Witness ==
    /\ ev.type = "close"
    /\ \E b \in Conns \ {ev.ws}, id \in Pids :
          /\ Registered(b)
          /\ ControlledIds(conns[wsDoc[b]], b) = << id >>
          /\ StateKeys(awStates[wsDoc[b]]) = << id >>
          /\ \A p \in Pids : awMeta[wsDoc[b]][p] # NoClock

\* C24: when a PRESENCE frame of connection a changes the awareness of its
\* room, every other connection registered in the room whose socket is open
\* is handed exactly one PRESENCE frame in that step.
C24_OneFramePerChange ==
    [][\A a \in Conns :
        (/\ ev'.type = "awareness" /\ ev'.ws = a
         /\ Registered(a)
         /\ awStates'[wsDoc[a]] # awStates[wsDoc[a]]) =>
            \A b \in ConnSet(conns[wsDoc[a]]) \ {a} :
                readyState[b] = "OPEN" =>
                    Cardinality(FramesTo(out', b, messageAwareness)) = 1]_vars

\* C25: a frame that arrives on a connection a which is no longer in the
\* connection set of its room, the room being still alive, leaves the room's
\* doc and awareness states as they were and has no frame handed to a
\* connection registered in the room.
C25_DeregisteredIsInert ==
    [][\A a \in Conns :
        (/\ ev'.type \in FrameEvents /\ ev'.ws = a
         /\ wsDoc[a] # NoDoc
         /\ ~HasConn(conns[wsDoc[a]], a)
         /\ ~destroyed[wsDoc[a]]) =>
            /\ ydoc'[wsDoc[a]] = ydoc[wsDoc[a]]
            /\ awStates'[wsDoc[a]] = awStates[wsDoc[a]]
            /\ Receivers(out') \cap ConnSet(conns[wsDoc[a]]) = {}]_vars

\* a doc object something still refers to after the step: the registry or
\* the handlers of a socket
Referenced(d) ==
    \/ \E n \in Names : docs'[n] = d
    \/ \E c \in Conns : wsDoc'[c] = d

\* C26: when the 'close' event or the failed write of a connection c runs
\* closeConn for c while c is not in the connection set of its doc, nothing
\* is sent, the registry is as it was, and every doc object still referred to
\* keeps its connections with their controlled ids and its awareness.
C26_CloseConnIdempotent ==
    [][\A c \in Conns :
        (/\ ev'.type \in {"close", "sendFail"} /\ ev'.ws = c
         /\ wsDoc[c] # NoDoc
         /\ ~HasConn(conns[wsDoc[c]], c)) =>
            /\ out' = <<>>
            /\ docs' = docs
            /\ \A d \in Docs :
                  Referenced(d) =>
                      /\ conns'[d] = conns[d]
                      /\ awStates'[d] = awStates[d]
                      /\ awMeta'[d] = awMeta[d]
                      /\ docName'[d] = docName[d]]_vars

\* the write to a connection has failed again after its room was destroyed
\* and a room of the same name, which has a participant, was created
C26_Witness ==
    /\ ev.type = "sendFail"
    /\ wsDoc[ev.ws] # NoDoc
    /\ destroyed[wsDoc[ev.ws]]
    /\ docs[docName[wsDoc[ev.ws]]] # NoDoc
    /\ docs[docName[wsDoc[ev.ws]]] # wsDoc[ev.ws]
    /\ Len(awStates[docs[docName[wsDoc[ev.ws]]]]) = 1
    /\ out = <<>>

\* C27: a 'close' event, a failed write or a frame of a connection c whose
\* doc object was destroyed, while the registry holds another doc under the
\* same name, leaves that doc in the registry and leaves its connections with
\* their controlled ids, its document and its awareness as they were.
C27_OldIncarnationIsInert ==
    [][\A c \in Conns :
        (/\ ev'.type \in FrameEvents \cup {"close", "sendFail"} /\ ev'.ws = c
         /\ wsDoc[c] # NoDoc
         /\ destroyed[wsDoc[c]]
         /\ docs[docName[wsDoc[c]]] # NoDoc) =>
            LET n == docName[wsDoc[c]]
                e == docs[n]
            IN /\ e # wsDoc[c]
               /\ docs'[n] = e
               /\ conns'[e] = conns[e]
               /\ ydoc'[e] = ydoc[e]
               /\ awStates'[e] = awStates[e]
               /\ awMeta'[e] = awMeta[e]]_vars

\* a document update has arrived on a connection of a destroyed room and went
\* into the destroyed doc, while the room now registered under the name has
\* a connection and an empty doc
C27_Witness ==
    /\ ev.type = "syncUpdate"
    /\ wsDoc[ev.ws] # NoDoc
    /\ destroyed[wsDoc[ev.ws]]
    /\ ydoc[wsDoc[ev.ws]] # {}
    /\ docs[docName[wsDoc[ev.ws]]] # NoDoc
    /\ docs[docName[wsDoc[ev.ws]]] # wsDoc[ev.ws]
    /\ ydoc[docs[docName[wsDoc[ev.ws]]]] = {}
    /\ Len(conns[docs[docName[wsDoc[ev.ws]]]]) >= 1

====
